---- MODULE Spec2Model ----
(***************************************************************************)
(* DataConsumer: the metrics Collector (internal/metrics/metrics.go), the  *)
(* RateLimiter and the two Consumer worker pools of internal/consumer: the *)
(* retrying pool (io.CopyBuffer, three attempts per source) and the        *)
(* rate-limited pool (chunked reads throttled by RateLimiter.Allow).       *)
(*                                                                         *)
(* Time is an integer clock `now` in milliseconds, and a time.Duration is  *)
(* a number of milliseconds.  A float64 rate in MB/min is kept as the      *)
(* fixed-point number rate * 2^20, that is bytes per minute, rounded down. *)
(***************************************************************************)
EXTENDS Integers, Sequences, FiniteSets, TLC

(***************************************************************************)
(* Bounds of the explored runs.                                            *)
(***************************************************************************)
\* live sampler goroutines explored (one per Collector.Start that launches one)
MaxSamplers == 2
\* AddBytes calls made by the collector's callers in the short collector runs
MaxAdds == 2
\* AddBytes calls made by the collector's callers in the history run
HistoryAdds == 1
\* sampling periods explored by the short collector runs
ShortTicks == 2
\* sampling periods the history run explores beyond the history capacity
ExtraTicks == 1
\* worker goroutines of the pool that are modelled
MaxWorkers == 2
\* chunks read from response bodies in a pool run
MaxReads == 1
\* consumeData calls made in a pool run
MaxFetches == 2
\* entries of config.DataSources
MaxSources == 2
\* seconds of a throttled download that are explored
LimiterSeconds == 6
\* chunks read per second of a throttled download that are explored
LimiterReads == 16

(***************************************************************************)
(* Program constants.                                                      *)
(***************************************************************************)
\* time.Second, in clock units
Second == 1000
\* NewCollector: historyLimit
historyLimit == 60
\* sampleMetrics: time.NewTicker(10 * time.Second)
TickerPeriod == 10 * Second
\* the zero time.Time of a Collector that was never started
ZeroTime == 0 - 1
\* the largest time.Duration; time.Since(zero Time) saturates there
MaxDuration == 2 ^ 30
\* the smallest time.Duration
MinDuration == 0 - MaxDuration
\* worker: bufferSizes
bufferSizes == <<4096, 8192, 16384, 32768>>
\* the bytes one AddBytes call of the collector's callers records
ChunkBytes == bufferSizes[1]
\* retrying worker: attempt < 3
MaxAttempts == 3
\* retrying worker: time.Sleep(500 * time.Millisecond)
RetryPause == Second \div 2
\* rate-limited consumeData: time.Sleep(100 * time.Millisecond)
ErrorPause == Second \div 10
\* Allow: the cap of 500 * time.Millisecond
MaxSleep == Second \div 2
\* getDataSources: the five built-in URLs of the rate-limited pool
BuiltinSources == 5
\* config.TargetRate values explored (MB per minute)
TargetRates == {0 - 1, 0, 1}

\* resp.StatusCode of a response: 200 OK, and 503 for the responses outside 2xx
StatusOK == 200
StatusUnavailable == 503
StatusCodes == {StatusOK, StatusUnavailable}

\* a sync.Mutex that no goroutine holds
Free == <<"free", 0>>

Workers == 0 .. MaxWorkers - 1

VARIABLES
    now,               \* the wall clock
    horizon,           \* the run is explored up to this clock value
    addLimit,          \* the run explores this many byte-recording calls
    fetchLimit,        \* the run explores this many consumeData calls
    \* ---- Collector
    bytesTransferred, startTime, lastSample, lastBytes, running, peakRate,
    rateHistory, logFile, enableLogging,
    mu,                \* the holder of the collector's mutex m.mu
    samplers,          \* the next ticker time of every live sampleMetrics goroutine
    stats,             \* the Stats value the last GetStats call returned
    evicted,           \* the cells of rateHistory's array in front of the slice
    spare,             \* cap(m.rateHistory) - len(m.rateHistory)
    snapshotSlice,     \* the slice that is the RateHistory of that Stats value
    \* ---- RateLimiter
    targetBytesPerSecond, lastCheck, bytesThisPeriod,
    limiterMu,         \* the holder of the limiter's mutex r.mu
    lastWait,          \* the Duration the last Allow call returned
    \* ---- Consumer
    variant,           \* "retry" or "limited": which Consumer is built
    targetRate,        \* config.TargetRate
    infAsInt,          \* what this build makes of time.Duration(+Inf)
    numSources,        \* len(sources)
    concurrencyFactor, \* config.ConcurrencyFactor, the number of workers asked for
    started,           \* Consumer.Start has run
    cancelled,         \* c.ctx is done
    wg,                \* c.wg's counter
    stopPc,            \* where Consumer.Stop is: "idle", "wait", "returned"
    pc,                \* where each worker goroutine is
    sourceIndex,       \* each worker's sourceIndex
    attempt,           \* each retrying worker's attempt (0 outside the retry loop)
    readErr,           \* the error of each worker's last Read, kept across the pause
    statusCode,        \* resp.StatusCode of the response each worker holds, 0 with none
    wakeAt,            \* when each sleeping worker's time.Sleep ends
    \* ---- history of the run (not program state)
    noopStart,         \* the last Start call that was observed found the collector running
    allSamples,        \* every RatePoint recorded since the last effective Start
    enableErr,         \* what EnableFileLogging returned: "none" before any call
    logLines,          \* the records sampleMetrics has handed to logFile.WriteString
    fileClosed,        \* the file EnableFileLogging created has been closed
    addSum,            \* sum of the increments of completed AddBytes calls since then
    adds,              \* byte-recording calls made in the run
    statsSum,          \* addSum at the time of the last GetStats call
    statsState,        \* the collector's lifecycle state at the last GetStats call
    fetches,           \* consumeData calls made in the run
    busyAtCancel,      \* a worker was blocked in a call or a sleep when c.cancel() ran
    admitted,          \* bytes passed to Allow since NewRateLimiter
    resets             \* window resets of the limiter since NewRateLimiter

runVars == <<horizon, addLimit, fetchLimit>>
lockVars == <<mu, limiterMu>>
heapVars == <<evicted, spare, snapshotSlice>>
collectorVars == <<bytesTransferred, startTime, lastSample, lastBytes, running,
                   peakRate, rateHistory, logFile, enableLogging, samplers>>
statsVars == <<stats, statsSum, statsState>>
logHist == <<enableErr, logLines, fileClosed>>
collectorHist == <<noopStart, allSamples, addSum, logHist>>
limiterVars == <<targetBytesPerSecond, lastCheck, bytesThisPeriod, lastWait,
                 admitted, resets>>
configVars == <<variant, targetRate, infAsInt, numSources, concurrencyFactor>>
workerVars == <<pc, sourceIndex, attempt, readErr, statusCode, wakeAt>>
poolVars == <<configVars, started, cancelled, wg, stopPc, workerVars, fetches,
             busyAtCancel>>
vars == <<now, runVars, heapVars, lockVars, collectorVars, statsVars, collectorHist, adds,
          limiterVars, poolVars>>

NoStats == [none |-> TRUE]

\* a slice over an array of its own (the nil slice has no cells)
OwnSlice(cells) == [shared |-> FALSE, off |-> 0, len |-> Len(cells), cells |-> cells]

\* a slice that shares the array of m.rateHistory
SharedSlice(off, len) == [shared |-> TRUE, off |-> off, len |-> len, cells |-> <<>>]

Max(a, b) == IF a >= b THEN a ELSE b
Min(a, b) == IF a <= b THEN a ELSE b

\* floor(a * b / c) for a, b >= 0, c > 0, without a product that leaves TLC's integers
MulDiv(a, b, c) == (a \div c) * b + ((a % c) * b) \div c

\* a * b / c truncated toward zero (Go's conversion of a float64 to an integer), b >= 0, c > 0
TruncMulDiv(a, b, c) == IF a >= 0 THEN MulDiv(a, b, c) ELSE 0 - MulDiv(0 - a, b, c)

\* a / b truncated toward zero (Go's integer division and float-to-integer conversion)
TruncDiv(a, b) ==
    IF (a >= 0) = (b > 0) THEN (IF a >= 0 THEN a ELSE 0 - a) \div (IF b > 0 THEN b ELSE 0 - b)
    ELSE 0 - ((IF a >= 0 THEN a ELSE 0 - a) \div (IF b > 0 THEN b ELSE 0 - b))

\* time.Since(t) / now.Sub(t)
Since(t) == IF t = ZeroTime THEN MaxDuration ELSE now - t

\* float64(bytes) / seconds / 1024 / 1024 * 60, as bytes per minute
RateMBPerMin(bytes, ms) == MulDiv(bytes * 60, Second, ms)

(***************************************************************************)
(* Collector                                                               *)
(***************************************************************************)
NewCollector ==
    /\ bytesTransferred = 0
    /\ startTime = ZeroTime
    /\ lastSample = ZeroTime
    /\ lastBytes = 0
    /\ running = FALSE
    /\ peakRate = 0
    /\ rateHistory = <<>>
    /\ logFile = "nil"
    /\ enableLogging = FALSE
    /\ mu = Free
    /\ samplers = <<>>
    /\ stats = NoStats
    /\ evicted = <<>>
    /\ spare = 0
    /\ snapshotSlice = OwnSlice(<<>>)
    /\ statsSum = 0
    /\ statsState = "none"
    /\ noopStart = FALSE
    /\ allSamples = <<>>
    /\ enableErr = "none"
    /\ logLines = 0
    /\ fileClosed = FALSE
    /\ addSum = 0
    /\ adds = 0

\* the cells the last snapshot's RateHistory reads
SnapshotCells ==
    IF snapshotSlice.shared
    THEN SubSeq(evicted \o rateHistory, snapshotSlice.off + 1,
                snapshotSlice.off + snapshotSlice.len)
    ELSE snapshotSlice.cells

\* m.rateHistory moves to a new array: a slice that shared the old one keeps it
Detached == IF snapshotSlice.shared THEN OwnSlice(SnapshotCells) ELSE snapshotSlice

\* m.rateHistory = make([]RatePoint, 0, m.historyLimit)
MakeHistory ==
    /\ evicted' = <<>>
    /\ spare' = historyLimit
    /\ snapshotSlice' = Detached

\* a Start that resets the collector and launches a sampler whether it runs or not
StartAlways ==
    /\ MakeHistory
    /\ startTime' = now
    /\ lastSample' = now
    /\ bytesTransferred' = 0
    /\ lastBytes' = 0
    /\ peakRate' = 0
    /\ rateHistory' = <<>>
    /\ running' = TRUE
    /\ samplers' = Append(samplers, now + TickerPeriod)
    /\ allSamples' = <<>>
    /\ addSum' = 0

\* a Start that keeps the peak of the run before
StartKeepsPeak ==
    IF ~running
    THEN /\ startTime' = now
         /\ lastSample' = now
         /\ bytesTransferred' = 0
         /\ lastBytes' = 0
         /\ rateHistory' = <<>>
         /\ MakeHistory
         /\ running' = TRUE
         /\ samplers' = Append(samplers, now + TickerPeriod)
         /\ allSamples' = <<>>
         /\ addSum' = 0
         /\ UNCHANGED peakRate
    ELSE UNCHANGED <<startTime, lastSample, bytesTransferred, lastBytes, peakRate,
                     rateHistory, heapVars, running, samplers, allSamples, addSum>>

\* Collector.Start, as a change of the collector's fields
StartFields ==
    IF ~running
    THEN /\ startTime' = now
         /\ lastSample' = now
         /\ bytesTransferred' = 0
         /\ lastBytes' = 0
         /\ peakRate' = 0
         /\ rateHistory' = <<>>
         /\ MakeHistory
         /\ running' = TRUE
         /\ samplers' = Append(samplers, now + TickerPeriod)
         /\ allSamples' = <<>>
         /\ addSum' = 0
    ELSE UNCHANGED <<startTime, lastSample, bytesTransferred, lastBytes, peakRate,
                     rateHistory, heapVars, running, samplers, allSamples, addSum>>

\* Collector.Start called by the collector's owner
CollectorStart ==
    /\ running \/ Len(samplers) < MaxSamplers
    /\ StartFields
    /\ UNCHANGED <<now, runVars, lockVars, logFile, enableLogging, statsVars, adds,
                   noopStart, logHist, limiterVars, poolVars>>

\* Collector.Start called by an owner whose call is observed: whether it found the
\* collector running is recorded
StartCall ==
    /\ running \/ Len(samplers) < MaxSamplers
    /\ StartFields
    /\ noopStart' = running
    /\ UNCHANGED <<now, runVars, lockVars, logFile, enableLogging, statsVars, adds, logHist,
                   limiterVars, poolVars>>

\* Collector.EnableFileLogging(filename): os.Create may fail, and then nothing is
\* attached; once the file is created it is attached and logging is switched on, and
\* the error returned is that of writing the CSV header
EnableFields(createErr, writeErr) ==
    IF createErr
    THEN /\ enableErr' = "error"
         /\ UNCHANGED <<logFile, enableLogging, fileClosed>>
    ELSE /\ logFile' = "file"
         /\ fileClosed' = FALSE
         /\ enableLogging' = TRUE
         /\ enableErr' = IF writeErr THEN "error" ELSE "nil"

\* Collector.EnableFileLogging called by the collector's owner
EnableFileLogging(createErr, writeErr) ==
    /\ EnableFields(createErr, writeErr)
    /\ UNCHANGED <<now, runVars, heapVars, lockVars, bytesTransferred, startTime, lastSample,
                   lastBytes,
                   running, peakRate, rateHistory, samplers, statsVars, noopStart,
                   allSamples, addSum, logLines, adds, limiterVars, poolVars>>

\* a Stop that closes the log file and leaves m.logFile pointing at it
StopLeavesFile ==
    /\ running' = FALSE
    /\ fileClosed' = (fileClosed \/ logFile # "nil")
    /\ UNCHANGED logFile

\* Collector.Stop, as a change of the collector's fields: the log file that is open
\* is closed and m.logFile is cleared
StopFields ==
    /\ running' = FALSE
    /\ fileClosed' = (fileClosed \/ logFile # "nil")
    /\ logFile' = "nil"

\* Collector.Stop called by the collector's owner
CollectorStop ==
    /\ StopFields
    /\ UNCHANGED <<now, runVars, heapVars, lockVars, bytesTransferred, startTime, lastSample,
                   lastBytes,
                   peakRate, rateHistory, enableLogging, samplers, statsVars, noopStart,
                   allSamples, addSum, enableErr, logLines, adds, limiterVars, poolVars>>

\* a counter that is overwritten, not added to
StoreBytes(old, bytes) == bytes

\* atomic.AddInt64(&m.bytesTransferred, bytes)
AtomicAdd(old, bytes) == old + bytes

\* Collector.AddBytes, as a change of the collector's fields
AddBytesFields(bytes) ==
    /\ bytesTransferred' = AtomicAdd(bytesTransferred, bytes)
    /\ addSum' = addSum + bytes

\* Collector.AddBytes called by one of any number of concurrent callers
AddBytes(bytes) ==
    /\ adds < addLimit
    /\ adds' = adds + 1
    /\ AddBytesFields(bytes)
    /\ UNCHANGED <<now, runVars, heapVars, lockVars, startTime, noopStart, logHist, lastSample,
                   lastBytes,
                   running,
                   peakRate, rateHistory, logFile, enableLogging, samplers, statsVars,
                   allSamples, limiterVars, poolVars>>

\* a history that evicts only once it is over its capacity
AppendLate(history, point) ==
    Append(IF Len(history) > historyLimit THEN Tail(history) ELSE history, point)

\* the history after one more sample: the oldest entry leaves a full history
AppendSample(history, point) ==
    Append(IF Len(history) >= historyLimit THEN Tail(history) ELSE history, point)

\* a peak that is never raised
KeepPeak(peak, rate) == peak

\* a peak that follows the last sample
LastRate(peak, rate) == rate

\* the peak after one more sample
UpdatePeak(peak, rate) == IF rate > peak THEN rate ELSE peak

\* an eviction that copies the entries down one cell of the array
ShiftedDown(front, history) == front

\* m.rateHistory = m.rateHistory[1:]: the oldest entry stays in its cell of the
\* array, now in front of the slice
Resliced(front, history) == Append(front, Head(history))

\* the capacities append may give the array it allocates: Go promises no more than
\* room for the appended element, the runtime usually doubles
GrownCaps(needed) == {needed, 2 * needed}

\* sampleMetrics' eviction and append, as a change of rateHistory's array: append
\* writes the cell behind the slice when the array has one, and moves the slice to a
\* new array when it has none
AppendHeap ==
    LET full == Len(rateHistory) >= historyLimit
        front == IF full THEN Resliced(evicted, rateHistory) ELSE evicted
        kept == IF full THEN Len(rateHistory) - 1 ELSE Len(rateHistory)
    IN  IF spare > 0
        THEN /\ evicted' = front
             /\ spare' = spare - 1
             /\ UNCHANGED snapshotSlice
        ELSE \E newcap \in GrownCaps(kept + 1) :
                 /\ evicted' = <<>>
                 /\ spare' = newcap - (kept + 1)
                 /\ snapshotSlice' = Detached

RemoveAt(s, i) == SubSeq(s, 1, i - 1) \o SubSeq(s, i + 1, Len(s))

\* one iteration of sampleMetrics' loop by sampler goroutine i with m.mu held, as a
\* change of the collector's fields
SampleFields(i) ==
    /\ i \in DOMAIN samplers
    /\ samplers[i] <= now
    /\ IF ~running
       THEN /\ samplers' = RemoveAt(samplers, i)
            /\ UNCHANGED <<rateHistory, heapVars, peakRate, lastSample, lastBytes,
                           allSamples, logLines>>
       ELSE /\ samplers' = [samplers EXCEPT ![i] = @ + TickerPeriod]
            /\ LET currentBytes == bytesTransferred
                   bytesDelta == currentBytes - lastBytes
                   timeDelta == Since(lastSample)
                   rate == RateMBPerMin(bytesDelta, timeDelta)
                   point == [Timestamp |-> now, RateMBPS |-> rate]
               IN  IF timeDelta > 0
                   THEN /\ rateHistory' = AppendSample(rateHistory, point)
                        /\ AppendHeap
                        /\ peakRate' = UpdatePeak(peakRate, rate)
                        /\ lastSample' = now
                        /\ lastBytes' = currentBytes
                        /\ allSamples' = Append(allSamples, point)
                        /\ logLines' = IF enableLogging /\ logFile # "nil"
                                       THEN logLines + 1 ELSE logLines
                   ELSE UNCHANGED <<rateHistory, heapVars, peakRate, lastSample,
                                    lastBytes, allSamples, logLines>>

\* one iteration of sampleMetrics' loop by sampler goroutine i, whose ticker fired
sampleMetrics(i) ==
    /\ SampleFields(i)
    /\ UNCHANGED <<now, runVars, lockVars, bytesTransferred, startTime, noopStart, enableErr,
                   fileClosed,
                   running, logFile,
                   enableLogging, statsVars, addSum, adds, limiterVars, poolVars>>

\* a CurrentRate that is always bytes over elapsed time
AverageOnly(history, currentBytes, elapsed) ==
    IF elapsed > 0 THEN RateMBPerMin(currentBytes, elapsed) ELSE 0

\* the CurrentRate of a snapshot
CurrentRate(history, currentBytes, elapsed) ==
    IF Len(history) > 0 THEN history[Len(history)].RateMBPS
    ELSE IF elapsed > 0 THEN RateMBPerMin(currentBytes, elapsed)
    ELSE 0

\* a snapshot whose peak was read before the lock was taken: it is the peak the
\* snapshot before it reported
TornSnapshot ==
    LET currentBytes == bytesTransferred
        elapsed == Since(startTime)
    IN  [BytesTransferred |-> currentBytes,
         ElapsedTime |-> elapsed,
         StartTime |-> startTime,
         CurrentRate |-> CurrentRate(rateHistory, currentBytes, elapsed),
         PeakRate |-> IF stats = NoStats THEN 0 ELSE stats.PeakRate,
         AverageRate |-> IF elapsed > 0 THEN RateMBPerMin(currentBytes, elapsed) ELSE 0,
         TotalMegabytes |-> currentBytes,
         RateHistory |-> rateHistory,
         LastUpdated |-> now]

\* the Stats value GetStats returns in the current state
Snapshot ==
    LET currentBytes == bytesTransferred
        elapsed == Since(startTime)
    IN  [BytesTransferred |-> currentBytes,
         ElapsedTime |-> elapsed,
         StartTime |-> startTime,
         CurrentRate |-> CurrentRate(rateHistory, currentBytes, elapsed),
         PeakRate |-> peakRate,
         AverageRate |-> IF elapsed > 0 THEN RateMBPerMin(currentBytes, elapsed) ELSE 0,
         TotalMegabytes |-> currentBytes,
         RateHistory |-> rateHistory,
         LastUpdated |-> now]

\* the collector's lifecycle state
Lifecycle ==
    IF running THEN "running" ELSE IF startTime = ZeroTime THEN "fresh" ELSE "stopped"

\* a GetStats that clears the peak it has reported
GetStatsWrites ==
    /\ stats' = Snapshot
    /\ snapshotSlice' = SharedSlice(Len(evicted), Len(rateHistory))
    /\ UNCHANGED <<evicted, spare>>
    /\ statsSum' = addSum
    /\ statsState' = Lifecycle
    /\ peakRate' = 0
    /\ UNCHANGED <<now, runVars, lockVars, bytesTransferred, startTime, lastSample, lastBytes,
                   running, rateHistory, logFile, enableLogging, samplers, collectorHist,
                   adds, limiterVars, poolVars>>

GetStats ==
    /\ stats' = Snapshot
    /\ snapshotSlice' = SharedSlice(Len(evicted), Len(rateHistory))
    /\ UNCHANGED <<evicted, spare>>
    /\ statsSum' = addSum
    /\ statsState' = Lifecycle
    /\ UNCHANGED <<now, runVars, lockVars, collectorVars, collectorHist, adds, limiterVars,
                   poolVars>>

\* the clock advances; a ticker that has fired is served before the next period ends
Advance(d) ==
    /\ d > 0
    /\ now + d <= horizon
    /\ \A i \in DOMAIN samplers : now + d <= samplers[i]
    /\ now' = now + d
    /\ UNCHANGED <<runVars, heapVars, lockVars, collectorVars, statsVars, collectorHist, adds,
                   limiterVars, poolVars>>

(***************************************************************************)
(* RateLimiter                                                             *)
(***************************************************************************)
\* NewRateLimiter(targetMBPerMinute): the limiter's fields after construction
NewRateLimiter(targetMBPerMinute) ==
    /\ targetBytesPerSecond = TruncDiv(targetMBPerMinute * 1024 * 1024, 60)
    /\ lastCheck = now
    /\ bytesThisPeriod = 0
    /\ limiterMu = Free
    /\ lastWait = 0
    /\ admitted = 0
    /\ resets = 0

\* what a build may make of time.Duration(+Inf): Go leaves the conversion of a
\* float64 the integer type cannot represent to the implementation (amd64 yields
\* the smallest int64, arm64 the largest)
InfConversions == {MinDuration, MaxDuration}

\* a sleep time that is returned as computed
Uncapped(sleepTime) == sleepTime

\* Allow's capped sleep time
CapSleep(sleepTime) == IF sleepTime > MaxSleep THEN MaxSleep ELSE sleepTime

\* an Allow that charges the bytes of the call that resets the window to the new
\* window
AllowCharges(bytes) ==
    LET elapsed == now - lastCheck
    IN  IF elapsed > Second
        THEN [wait |-> 0, lastCheck |-> now, bytesThisPeriod |-> bytes, reset |-> TRUE]
        ELSE LET total == bytesThisPeriod + bytes
                 allowedBytes == TruncMulDiv(targetBytesPerSecond, elapsed, Second)
                 excessBytes == total - allowedBytes
                 sleepTime == IF targetBytesPerSecond = 0 THEN infAsInt
                              ELSE TruncDiv(excessBytes * Second, targetBytesPerSecond)
             IN  [wait |-> IF total > allowedBytes THEN CapSleep(sleepTime) ELSE 0,
                  lastCheck |-> lastCheck,
                  bytesThisPeriod |-> total,
                  reset |-> FALSE]

\* RateLimiter.Allow(bytes) at the current time: the Duration it returns and the
\* fields it leaves
Allow(bytes) ==
    LET elapsed == now - lastCheck
    IN  IF elapsed > Second
        THEN [wait |-> 0, lastCheck |-> now, bytesThisPeriod |-> 0, reset |-> TRUE]
        ELSE LET total == bytesThisPeriod + bytes
                 allowedBytes == TruncMulDiv(targetBytesPerSecond, elapsed, Second)
                 excessBytes == total - allowedBytes
                 sleepTime == IF targetBytesPerSecond = 0 THEN infAsInt
                              ELSE TruncDiv(excessBytes * Second, targetBytesPerSecond)
             IN  [wait |-> IF total > allowedBytes THEN CapSleep(sleepTime) ELSE 0,
                  lastCheck |-> lastCheck,
                  bytesThisPeriod |-> total,
                  reset |-> FALSE]

\* the limiter's fields after Allow(bytes)
AllowFields(bytes) ==
    LET r == Allow(bytes)
    IN  /\ lastCheck' = r.lastCheck
        /\ bytesThisPeriod' = r.bytesThisPeriod
        /\ lastWait' = r.wait
        /\ admitted' = admitted + bytes
        /\ resets' = resets + (IF r.reset THEN 1 ELSE 0)
        /\ UNCHANGED targetBytesPerSecond

(***************************************************************************)
(* Consumer                                                                *)
(***************************************************************************)
\* NewConsumer(config, metricsCollector): the fields of the consumer it returns
NewConsumer ==
    /\ variant \in {"retry", "limited"}
    /\ targetRate \in (IF variant = "limited" THEN TargetRates ELSE {1})
    /\ infAsInt \in (IF variant = "limited" /\ targetRate = 0 THEN InfConversions
                     ELSE {MinDuration})
    /\ numSources \in (IF variant = "limited" THEN {BuiltinSources} ELSE 0 .. MaxSources)
    /\ NewRateLimiter(IF variant = "limited" THEN targetRate ELSE 0)
    /\ started = FALSE
    /\ cancelled = FALSE
    /\ wg = 0
    /\ stopPc = "idle"
    /\ pc = [w \in Workers |-> "new"]
    /\ sourceIndex = [w \in Workers |-> 0]
    /\ attempt = [w \in Workers |-> 0]
    /\ readErr = [w \in Workers |-> "nil"]
    /\ statusCode = [w \in Workers |-> 0]
    /\ wakeAt = [w \in Workers |-> 0]
    /\ fetches = 0
    /\ busyAtCancel = FALSE

\* no consumer is built: the collector is driven by its callers alone
NoConsumer ==
    /\ variant = "none"
    /\ targetRate = 0
    /\ infAsInt = MinDuration
    /\ numSources = 0
    /\ concurrencyFactor = MaxWorkers
    /\ NewRateLimiter(0)
    /\ started = FALSE
    /\ cancelled = FALSE
    /\ wg = 0
    /\ stopPc = "idle"
    /\ pc = [w \in Workers |-> "new"]
    /\ sourceIndex = [w \in Workers |-> 0]
    /\ attempt = [w \in Workers |-> 0]
    /\ readErr = [w \in Workers |-> "nil"]
    /\ statusCode = [w \in Workers |-> 0]
    /\ wakeAt = [w \in Workers |-> 0]
    /\ fetches = 0
    /\ busyAtCancel = FALSE

\* worker: bufferSizes[id%len(bufferSizes)]
bufferSize(w) == bufferSizes[(w % Len(bufferSizes)) + 1]

\* Consumer.Start: the collector is started, then every worker goroutine is spawned
\* and computes its first sourceIndex, id % len(sources); with no sources that is an
\* integer division by zero, a run-time panic that ends the process
ConsumerStart ==
    /\ ~started
    /\ started' = TRUE
    /\ StartFields
    /\ wg' = MaxWorkers
    /\ pc' = [w \in Workers |-> IF numSources = 0 THEN "panic" ELSE "loop"]
    /\ sourceIndex' = [w \in Workers |-> IF numSources = 0 THEN 0 ELSE w % numSources]
    /\ UNCHANGED <<now, runVars, lockVars, logFile, enableLogging, statsVars, adds,
                   noopStart, logHist, limiterVars, configVars, cancelled, stopPc, attempt,
                   readErr, statusCode, wakeAt, fetches, busyAtCancel>>

\* what the worker steps below leave alone
WorkerFrame ==
    UNCHANGED <<now, runVars, heapVars, lockVars, startTime, noopStart, logHist, lastSample,
                lastBytes, running, peakRate, rateHistory, logFile, enableLogging,
                samplers, statsVars, allSamples, configVars, started, cancelled, stopPc,
                busyAtCancel>>

\* a rotation that counts up without wrapping at the end of the list
NextUnwrapped(w) ==
    /\ sourceIndex' = [sourceIndex EXCEPT ![w] = @ + 1]
    /\ pc' = [pc EXCEPT ![w] = "loop"]

\* the worker's next position when the fetch round is over:
\* sourceIndex = (sourceIndex + 1) % len(sources), back to the top of the loop
NextSource(w) ==
    /\ sourceIndex' = [sourceIndex EXCEPT ![w] = (@ + 1) % numSources]
    /\ pc' = [pc EXCEPT ![w] = "loop"]

\* the top of worker's loop: select on c.ctx.Done(), else a fetch of the current source
WorkerLoop(w) ==
    /\ pc[w] = "loop"
    /\ IF cancelled
       THEN /\ pc' = [pc EXCEPT ![w] = "done"]
            /\ wg' = wg - 1
            /\ UNCHANGED <<attempt, fetches>>
       ELSE /\ fetches < fetchLimit
            /\ fetches' = fetches + 1
            /\ pc' = [pc EXCEPT ![w] = "connect"]
            /\ attempt' = [attempt EXCEPT ![w] = 0]
            /\ UNCHANGED wg
    /\ UNCHANGED <<sourceIndex, readErr, statusCode, wakeAt, bytesTransferred, addSum, adds,
                   limiterVars>>
    /\ WorkerFrame

\* c.client.Do(req) returns a response with status code: err is nil whatever the
\* code, and consumeData goes on to read the body without looking at resp.StatusCode
ConnectOK(w, code) ==
    /\ pc[w] = "connect"
    /\ ~cancelled
    /\ pc' = [pc EXCEPT ![w] = IF variant = "retry" THEN "copy" ELSE "readsel"]
    /\ statusCode' = [statusCode EXCEPT ![w] = code]
    /\ UNCHANGED <<sourceIndex, attempt, readErr, wakeAt, wg, fetches, bytesTransferred,
                   addSum, adds, limiterVars>>
    /\ WorkerFrame

\* a failed attempt that is counted as a chunk read
FailedAttemptCounts(w) ==
    /\ pc' = [pc EXCEPT ![w] = "backoff"]
    /\ wakeAt' = [wakeAt EXCEPT ![w] = now + (IF variant = "retry" THEN RetryPause
                                                ELSE ErrorPause)]
    /\ statusCode' = [statusCode EXCEPT ![w] = 0]
    /\ AddBytesFields(ChunkBytes)
    /\ UNCHANGED <<sourceIndex, attempt, readErr, wg, fetches, adds, limiterVars>>
    /\ WorkerFrame

\* a failed attempt: the retrying worker pauses 500 ms before its next attempt, the
\* rate-limited consumeData pauses 100 ms before it returns
FailedAttempt(w) ==
    /\ pc' = [pc EXCEPT ![w] = "backoff"]
    /\ wakeAt' = [wakeAt EXCEPT ![w] = now + (IF variant = "retry" THEN RetryPause
                                                ELSE ErrorPause)]
    /\ statusCode' = [statusCode EXCEPT ![w] = 0]
    /\ UNCHANGED <<sourceIndex, attempt, readErr, wg, fetches,
                   bytesTransferred, addSum, adds, limiterVars>>
    /\ WorkerFrame

\* c.client.Do(req) returns an error of the network
ConnectFail(w) ==
    /\ pc[w] = "connect"
    /\ ~cancelled
    /\ FailedAttempt(w)

\* a request built without c.ctx: cancelling never ends its blocked call
Unbound(w) == FALSE

\* the request is bound to c.ctx (http.NewRequestWithContext): once c.ctx is done the
\* blocked call of worker w returns the context's error
Aborted(w) == cancelled

\* c.client.Do(req) returns c.ctx's error
ConnectCancelled(w) ==
    /\ pc[w] = "connect"
    /\ Aborted(w)
    /\ FailedAttempt(w)

\* a worker that gives up after a failed attempt: it returns from its goroutine
BackoffExit(w) ==
    /\ pc[w] = "backoff"
    /\ pc' = [pc EXCEPT ![w] = "done"]
    /\ wg' = wg - 1
    /\ wakeAt' = [wakeAt EXCEPT ![w] = 0]
    /\ UNCHANGED <<sourceIndex, attempt, readErr, statusCode, fetches, bytesTransferred,
                   addSum, adds, limiterVars>>
    /\ WorkerFrame

\* a worker that gives a source up after any failed attempt, with no retry
BackoffRotates(w) ==
    /\ pc[w] = "backoff"
    /\ NextSource(w)
    /\ attempt' = [attempt EXCEPT ![w] = 0]
    /\ wakeAt' = [wakeAt EXCEPT ![w] = 0]
    /\ UNCHANGED <<readErr, statusCode, wg, fetches, bytesTransferred, addSum, adds,
                   limiterVars>>
    /\ WorkerFrame

\* time.Sleep returns after a failed attempt
BackoffWake(w) ==
    /\ pc[w] = "backoff"
    /\ IF variant = "retry" /\ attempt[w] + 1 < MaxAttempts
       THEN /\ attempt' = [attempt EXCEPT ![w] = @ + 1]
            /\ pc' = [pc EXCEPT ![w] = "connect"]
            /\ UNCHANGED sourceIndex
       ELSE /\ NextSource(w)
            /\ attempt' = [attempt EXCEPT ![w] = 0]
    /\ wakeAt' = [wakeAt EXCEPT ![w] = 0]
    /\ UNCHANGED <<readErr, statusCode, wg, fetches, bytesTransferred, addSum, adds,
                   limiterVars>>
    /\ WorkerFrame

\* retrying consumeData: io.CopyBuffer reads bytes and countingDiscarder.Write counts them
CopyChunk(w, bytes) ==
    /\ pc[w] = "copy"
    /\ ~cancelled
    /\ adds < addLimit
    /\ adds' = adds + 1
    /\ AddBytesFields(bytes)
    /\ UNCHANGED <<pc, sourceIndex, attempt, readErr, statusCode, wakeAt, wg, fetches,
                   limiterVars>>
    /\ WorkerFrame

\* retrying consumeData: io.CopyBuffer reaches the end of the body and returns nil
CopyEOF(w) ==
    /\ pc[w] = "copy"
    /\ ~cancelled
    /\ NextSource(w)
    /\ attempt' = [attempt EXCEPT ![w] = 0]
    /\ statusCode' = [statusCode EXCEPT ![w] = 0]
    /\ UNCHANGED <<readErr, wakeAt, wg, fetches, bytesTransferred, addSum, adds,
                   limiterVars>>
    /\ WorkerFrame

\* retrying consumeData: io.CopyBuffer returns a read error of the network
CopyError(w) ==
    /\ pc[w] = "copy"
    /\ ~cancelled
    /\ FailedAttempt(w)

\* retrying consumeData: io.CopyBuffer returns context.Canceled, which counts as success
CopyCancelled(w) ==
    /\ pc[w] = "copy"
    /\ Aborted(w)
    /\ NextSource(w)
    /\ attempt' = [attempt EXCEPT ![w] = 0]
    /\ statusCode' = [statusCode EXCEPT ![w] = 0]
    /\ UNCHANGED <<readErr, wakeAt, wg, fetches, bytesTransferred, addSum, adds,
                   limiterVars>>
    /\ WorkerFrame

\* rate-limited consumeData: the select on c.ctx.Done() before each Read
ReadSelect(w) ==
    /\ pc[w] = "readsel"
    /\ IF cancelled
       THEN /\ NextSource(w)
            /\ statusCode' = [statusCode EXCEPT ![w] = 0]
       ELSE /\ pc' = [pc EXCEPT ![w] = "read"]
            /\ UNCHANGED <<sourceIndex, statusCode>>
    /\ UNCHANGED <<attempt, readErr, wakeAt, wg,
                   fetches, bytesTransferred, addSum, adds, limiterVars>>
    /\ WorkerFrame

\* rate-limited consumeData after a Read was accounted for: return on EOF or error
AfterRead(w, err) ==
    IF err # "nil"
    THEN /\ NextSource(w)
         /\ statusCode' = [statusCode EXCEPT ![w] = 0]
    ELSE /\ pc' = [pc EXCEPT ![w] = "readsel"]
         /\ UNCHANGED <<sourceIndex, statusCode>>

\* rate-limited consumeData: resp.Body.Read returns (n, err); n > 0 is counted and
\* passed to the limiter, and a positive wait is slept
ReadReturn(w, n, err) ==
    /\ pc[w] = "read"
    /\ IF n > 0
       THEN /\ adds < addLimit
            /\ adds' = adds + 1
            /\ AddBytesFields(n)
            /\ AllowFields(n)
            /\ IF Allow(n).wait > 0
               THEN /\ pc' = [pc EXCEPT ![w] = "throttle"]
                    /\ wakeAt' = [wakeAt EXCEPT ![w] = now + Allow(n).wait]
                    /\ readErr' = [readErr EXCEPT ![w] = err]
                    /\ UNCHANGED <<sourceIndex, statusCode>>
               ELSE /\ AfterRead(w, err)
                    /\ UNCHANGED <<wakeAt, readErr>>
       ELSE /\ AfterRead(w, err)
            /\ UNCHANGED <<wakeAt, readErr, bytesTransferred, addSum, adds,
                           limiterVars>>
    /\ UNCHANGED <<attempt, wg, fetches>>
    /\ WorkerFrame

\* the results a Read of the network may have
ReadChunk(w) ==
    \E n \in {0, bufferSize(w)}, err \in {"nil", "EOF", "error"} :
        /\ n > 0 \/ err # "nil"
        /\ ReadReturn(w, n, err)

\* the Read blocked on the network returns c.ctx's error
ReadCancelled(w) ==
    /\ Aborted(w)
    /\ ReadReturn(w, 0, "error")

\* the rate-limited pool's http.Client has Timeout 60 s: a client.Do or a Read that
\* is still blocked then returns an error
ClientTimeout(w) ==
    /\ variant = "limited"
    /\ \/ pc[w] = "connect" /\ FailedAttempt(w)
       \/ ReadReturn(w, 0, "error")

\* time.Sleep(sleepTime) returns after a positive wait of the limiter
ThrottleWake(w) ==
    /\ pc[w] = "throttle"
    /\ AfterRead(w, readErr[w])
    /\ readErr' = [readErr EXCEPT ![w] = "nil"]
    /\ wakeAt' = [wakeAt EXCEPT ![w] = 0]
    /\ UNCHANGED <<attempt, wg, fetches,
                   bytesTransferred, addSum, adds, limiterVars>>
    /\ WorkerFrame

\* worker w is inside client.Do, Read, io.CopyBuffer or time.Sleep
Blocked(w) == pc[w] \in {"connect", "read", "copy", "backoff", "throttle"}

\* a Stop that does not wait for the workers
NoWait == TRUE

\* a Wait that is released by a worker that has yet to exit
WaitForExit == \E w \in Workers : pc[w] # "done"

\* a Wait that returns as soon as one worker has exited
WaitForOne == wg < MaxWorkers

\* c.wg.Wait() returns
WaitReturns == wg = 0

\* a worker goroutine has panicked: the process is gone
Crashed == \E w \in Workers : pc[w] = "panic"

\* Consumer.Stop up to the point where it blocks: c.cancel()
StopCancel ==
    /\ started
    /\ ~Crashed
    /\ stopPc = "idle"
    /\ cancelled' = TRUE
    /\ stopPc' = "wait"
    /\ busyAtCancel' = (\E w \in Workers : Blocked(w))
    /\ UNCHANGED <<now, runVars, heapVars, lockVars, collectorVars, statsVars, collectorHist, adds,
                   limiterVars, configVars, started, wg, workerVars, fetches>>

\* Consumer.Stop from the point where it blocks: c.wg.Wait(), c.metricsCollector.Stop()
StopWait ==
    /\ stopPc = "wait"
    /\ WaitReturns
    /\ stopPc' = "returned"
    /\ StopFields
    /\ UNCHANGED <<now, runVars, heapVars, lockVars, bytesTransferred, startTime, lastSample,
                   lastBytes,
                   peakRate, rateHistory, enableLogging, samplers, statsVars, noopStart,
                   allSamples, addSum, enableErr, logLines, adds, limiterVars, configVars,
                   started, cancelled, wg,
                   workerVars, fetches, busyAtCancel>>

(***************************************************************************)
(* Spec: a pool from NewConsumer through Start and Stop, explored by the   *)
(* order of its steps alone: the clock stands still, and a sleeping worker *)
(* resumes whenever the scheduler picks it.                                *)
(***************************************************************************)
Init ==
    /\ now = 0
    /\ horizon = 0
    /\ addLimit = MaxReads
    /\ fetchLimit = MaxFetches
    /\ NewCollector
    /\ NewConsumer
    /\ concurrencyFactor = MaxWorkers

WorkerStep(w) ==
    \/ WorkerLoop(w)
    \/ BackoffWake(w)
    \/ ConnectCancelled(w)
    \/ CopyCancelled(w)
    \/ ReadSelect(w)
    \/ ReadCancelled(w)
    \/ ClientTimeout(w)
    \/ ThrottleWake(w)

NetworkStep(w) ==
    \/ ConnectOK(w, StatusOK)
    \/ ConnectFail(w)
    \/ CopyChunk(w, ChunkBytes)
    \/ CopyEOF(w)
    \/ CopyError(w)
    \/ ReadChunk(w)

Next ==
    \/ ConsumerStart
    \/ StopCancel
    \/ StopWait
    \/ \E w \in Workers : WorkerStep(w)
    \/ \E w \in Workers : NetworkStep(w)

Spec == Init /\ [][Next]_vars

(***************************************************************************)
(* FairSpec: the pool under the scheduling Go guarantees: a runnable       *)
(* goroutine runs, a time.Sleep ends, a timer of the http.Client fires, a  *)
(* call blocked on a request whose context is done returns.  Nothing is    *)
(* assumed of the network: a source may never answer.                      *)
(***************************************************************************)
FairSpec ==
    /\ Spec
    /\ \A w \in Workers : WF_vars(WorkerStep(w))
    /\ WF_vars(StopWait)

(***************************************************************************)
(* PromptSpec: the pool as in Spec, built from the configuration that      *)
(* promptForUserInput returns: the number of workers is whatever integer   *)
(* the user typed, or runtime.NumCPU() by default.                         *)
(***************************************************************************)
WorkerAnswers == 0 .. MaxWorkers + 1

PromptInit ==
    /\ now = 0
    /\ horizon = 0
    /\ addLimit = MaxReads
    /\ fetchLimit = MaxFetches
    /\ NewCollector
    /\ NewConsumer
    /\ concurrencyFactor \in WorkerAnswers

PromptSpec == PromptInit /\ [][Next]_vars

(***************************************************************************)
(* FailingSourceSpec: the pool as in Spec with two sources or more, of     *)
(* which the first refuses every connection and the others answer every    *)
(* request.                                                                *)
(***************************************************************************)
BadSource == 0

FailingSourceInit ==
    /\ Init
    /\ numSources > 1

FailingSourceNext ==
    \/ ConsumerStart
    \/ StopCancel
    \/ StopWait
    \/ \E w \in Workers : WorkerStep(w)
    \/ \E w \in Workers : sourceIndex[w] = BadSource /\ ConnectFail(w)
    \/ \E w \in Workers : sourceIndex[w] # BadSource /\ ConnectOK(w, StatusOK)
    \/ \E w \in Workers : CopyChunk(w, ChunkBytes)
    \/ \E w \in Workers : CopyEOF(w)
    \/ \E w \in Workers : ReadChunk(w)

FailingSourceSpec == FailingSourceInit /\ [][FailingSourceNext]_vars

(***************************************************************************)
(* FetchSpec: the pool as in Spec, with sources that answer with any       *)
(* status code.                                                            *)
(***************************************************************************)
FetchNext ==
    \/ Next
    \/ \E w \in Workers, code \in StatusCodes : ConnectOK(w, code)

FetchSpec == Init /\ [][FetchNext]_vars

(***************************************************************************)
(* SecondStopSpec: a pool with a positive target rate, over one source or  *)
(* the built-in ones, with the metrics log opened before the pool is       *)
(* started, run for one sampling period, and with Consumer.Stop called     *)
(* again after it has returned.                                            *)
(***************************************************************************)
\* the second Consumer.Stop up to the point where it could block: c.cancel()
StopAgain ==
    /\ stopPc = "returned"
    /\ cancelled' = TRUE
    /\ stopPc' = "waitAgain"
    /\ UNCHANGED <<now, runVars, heapVars, lockVars, collectorVars, statsVars,
                   collectorHist, adds, limiterVars, configVars, started, wg, workerVars,
                   fetches, busyAtCancel>>

\* the second Consumer.Stop from there: c.wg.Wait(), c.metricsCollector.Stop()
StopAgainWait ==
    /\ stopPc = "waitAgain"
    /\ WaitReturns
    /\ stopPc' = "returnedAgain"
    /\ StopFields
    /\ UNCHANGED <<now, runVars, heapVars, lockVars, bytesTransferred, startTime,
                   lastSample, lastBytes, peakRate, rateHistory, enableLogging, samplers,
                   statsVars, noopStart, allSamples, addSum, enableErr, logLines, adds,
                   limiterVars, configVars, started, cancelled, wg, workerVars, fetches,
                   busyAtCancel>>

SecondStopInit ==
    /\ now = 0
    /\ horizon = TickerPeriod
    /\ addLimit = MaxReads
    /\ fetchLimit = MaxFetches
    /\ NewCollector
    /\ NewConsumer
    /\ targetRate = 1
    /\ numSources \in {1, BuiltinSources}
    /\ concurrencyFactor = MaxWorkers

SecondStopNext ==
    \/ Next
    \/ /\ ~started
       /\ enableErr = "none"
       /\ EnableFileLogging(FALSE, FALSE)
    \/ \E i \in 1 .. MaxSamplers : sampleMetrics(i)
    \/ Advance(TickerPeriod)
    \/ StopAgain
    \/ StopAgainWait

SecondStopSpec == SecondStopInit /\ [][SecondStopNext]_vars

(***************************************************************************)
(* SummarySpec: the pool as in Spec, with the owner's saveAndPrintSummary  *)
(* after Stop has returned: GetStats for the summary, and again for the    *)
(* metrics file.                                                           *)
(***************************************************************************)
SummaryNext ==
    \/ Next
    \/ stopPc = "returned" /\ GetStats

SummarySpec == Init /\ [][SummaryNext]_vars

(***************************************************************************)
(* AnsweringSpec: the pool under Go's scheduling, with a network that ends *)
(* every call blocked on it one way or another: a response or an error, a  *)
(* chunk, the end of the body or a read error.  Sources that fail every    *)
(* request are among its behaviours.                                       *)
(***************************************************************************)
AnsweringSpec ==
    /\ FairSpec
    /\ \A w \in Workers : WF_vars(NetworkStep(w))

(***************************************************************************)
(* CollectorSpec: the collector driven by its callers, for a few sampling  *)
(* periods.                                                                *)
(***************************************************************************)
CollectorInit ==
    /\ now = 0
    /\ horizon = ShortTicks * TickerPeriod
    /\ addLimit = MaxAdds
    /\ fetchLimit = 0
    /\ NewCollector
    /\ NoConsumer

CollectorNext ==
    \/ CollectorStart
    \/ CollectorStop
    \/ AddBytes(ChunkBytes)
    \/ \E i \in 1 .. MaxSamplers : sampleMetrics(i)
    \/ GetStats
    \/ \E d \in {TickerPeriod \div 2, TickerPeriod} : Advance(d)

CollectorSpec == CollectorInit /\ [][CollectorNext]_vars

(***************************************************************************)
(* HistorySpec: one run of the collector, started once and followed until  *)
(* it is stopped, long enough to fill its history.                         *)
(***************************************************************************)
HistoryInit ==
    /\ now = 0
    /\ horizon = (historyLimit + ExtraTicks) * TickerPeriod
    /\ addLimit = HistoryAdds
    /\ fetchLimit = 0
    /\ NewCollector
    /\ NoConsumer

HistoryNext ==
    \/ startTime = ZeroTime /\ CollectorStart
    \/ CollectorStop
    \/ AddBytes(ChunkBytes)
    \/ \E i \in 1 .. MaxSamplers : sampleMetrics(i)
    \/ running /\ Advance(TickerPeriod)

HistorySpec == HistoryInit /\ [][HistoryNext]_vars

(***************************************************************************)
(* RestartSpec: the collector started, stopped and started again by an     *)
(* owner whose Start calls are observed, with bytes counted and samples    *)
(* taken in between.                                                       *)
(***************************************************************************)
RestartInit ==
    /\ now = 0
    /\ horizon = ShortTicks * TickerPeriod
    /\ addLimit = MaxAdds
    /\ fetchLimit = 0
    /\ NewCollector
    /\ NoConsumer

RestartNext ==
    \/ StartCall
    \/ CollectorStop
    \/ AddBytes(ChunkBytes)
    \/ \E i \in 1 .. MaxSamplers : sampleMetrics(i)
    \/ Advance(TickerPeriod)

RestartSpec == RestartInit /\ [][RestartNext]_vars

(***************************************************************************)
(* LoggingSpec: the collector of a program that asks for the metrics log   *)
(* once, as main does, and then runs it for a few sampling periods.        *)
(***************************************************************************)
LoggingInit ==
    /\ now = 0
    /\ horizon = ShortTicks * TickerPeriod
    /\ addLimit = MaxAdds
    /\ fetchLimit = 0
    /\ NewCollector
    /\ NoConsumer

LoggingNext ==
    \/ /\ enableErr = "none"
       /\ \E createErr, writeErr \in BOOLEAN : EnableFileLogging(createErr, writeErr)
    \/ CollectorStart
    \/ CollectorStop
    \/ AddBytes(ChunkBytes)
    \/ \E i \in 1 .. MaxSamplers : sampleMetrics(i)
    \/ Advance(TickerPeriod)

LoggingSpec == LoggingInit /\ [][LoggingNext]_vars

(***************************************************************************)
(* LimiterSpec: the workers of a started rate-limited pool download from a *)
(* source that is faster than any target: every Read returns a full buffer *)
(* at once, and every positive wait of the limiter is slept in full.       *)
(***************************************************************************)
\* a rate-limited pool just after Start, every worker connected to its first source
StartedPool ==
    \* the collector, started by Consumer.Start
    /\ bytesTransferred = 0
    /\ startTime = 0
    /\ lastSample = 0
    /\ lastBytes = 0
    /\ running = TRUE
    /\ peakRate = 0
    /\ rateHistory = <<>>
    /\ logFile = "nil"
    /\ enableLogging = FALSE
    /\ mu = Free
    /\ samplers = <<TickerPeriod>>
    /\ stats = NoStats
    /\ evicted = <<>>
    /\ spare = historyLimit
    /\ snapshotSlice = OwnSlice(<<>>)
    /\ statsSum = 0
    /\ statsState = "none"
    /\ noopStart = FALSE
    /\ allSamples = <<>>
    /\ enableErr = "none"
    /\ logLines = 0
    /\ fileClosed = FALSE
    /\ addSum = 0
    /\ adds = 0
    \* the consumer, every worker connected to its first source
    /\ variant = "limited"
    /\ targetRate \in TargetRates
    /\ infAsInt \in (IF targetRate = 0 THEN InfConversions ELSE {MinDuration})
    /\ numSources = BuiltinSources
    /\ concurrencyFactor = MaxWorkers
    /\ NewRateLimiter(targetRate)
    /\ started = TRUE
    /\ cancelled = FALSE
    /\ wg = MaxWorkers
    /\ stopPc = "idle"
    /\ pc = [w \in Workers |-> "readsel"]
    /\ sourceIndex = [w \in Workers |-> w % BuiltinSources]
    /\ attempt = [w \in Workers |-> 0]
    /\ readErr = [w \in Workers |-> "nil"]
    /\ statusCode = [w \in Workers |-> StatusOK]
    /\ wakeAt = [w \in Workers |-> 0]
    /\ fetches = MaxWorkers
    /\ busyAtCancel = FALSE

LimiterInit ==
    /\ now = 0
    /\ horizon = LimiterSeconds * Second
    /\ addLimit = LimiterSeconds * LimiterReads
    /\ fetchLimit = 0
    /\ StartedPool

\* a Read of the fast source
FullRead(w) == ReadReturn(w, bufferSize(w), "nil")

\* time.Sleep(sleepTime) returns when the wait is over
TimedWake(w) ==
    /\ now >= wakeAt[w]
    /\ ThrottleWake(w)

\* time passes while every worker sleeps, up to the first wake-up
SleepUntilWake ==
    /\ \A w \in Workers : pc[w] = "throttle" /\ wakeAt[w] > now
    /\ \E w \in Workers :
          /\ \A v \in Workers : wakeAt[w] <= wakeAt[v]
          /\ Advance(wakeAt[w] - now)

LimiterNext ==
    \/ \E w \in Workers : ReadSelect(w)
    \/ \E w \in Workers : FullRead(w)
    \/ \E w \in Workers : TimedWake(w)
    \/ SleepUntilWake

LimiterSpec == LimiterInit /\ [][LimiterNext]_vars

(***************************************************************************)
(* ChunkSpec: the rate-limited pool with the read loop of consumeData      *)
(* taken call by call and every mutex taken and released in a step of its  *)
(* own, while the sampler ticks and the owner calls Start on the running   *)
(* collector.  The target rate is positive.                                *)
(***************************************************************************)
\* an AddBytes that would take the collector's mutex
AddBytesLocked == mu = Free

\* Collector.AddBytes is one atomic.AddInt64: it waits for no lock
AddBytesReady == TRUE

\* the goroutine that holds a mutex, from the call that took it
Task(holder) ==
    IF holder[1] = "Allow" THEN <<"worker", holder[2]>>
    ELSE IF holder[1] = "sampleMetrics" THEN <<"sampler", holder[2]>>
    ELSE <<"main", 0>>

\* the workers whose Read has returned bytes that AddBytes has not counted yet
Uncounted == {v \in Workers : pc[v] = "count"}

\* the workers that have counted a chunk that Allow has not returned for yet
Unadmitted == {v \in Workers : pc[v] \in {"allow", "allowing"}}

\* consumeData: n, err := resp.Body.Read(buffer)
ChunkRead(w, n, err) ==
    /\ pc[w] = "read"
    /\ IF n > 0
       THEN /\ adds + Cardinality(Uncounted) < addLimit
            /\ pc' = [pc EXCEPT ![w] = "count"]
            /\ readErr' = [readErr EXCEPT ![w] = err]
            /\ UNCHANGED <<sourceIndex, statusCode>>
       ELSE /\ AfterRead(w, err)
            /\ UNCHANGED readErr
    /\ UNCHANGED <<attempt, wakeAt, wg, fetches, bytesTransferred, addSum, adds,
                   limiterVars>>
    /\ WorkerFrame

\* a consumeData that passes a chunk to the limiter without counting it
ChunkUncounted(w) ==
    /\ pc[w] = "count"
    /\ pc' = [pc EXCEPT ![w] = "allow"]
    /\ UNCHANGED <<sourceIndex, attempt, readErr, statusCode, wakeAt, wg, fetches,
                   bytesTransferred, addSum, adds, limiterVars>>
    /\ WorkerFrame

\* consumeData: c.metricsCollector.AddBytes(int64(n))
ChunkCount(w) ==
    /\ pc[w] = "count"
    /\ AddBytesReady
    /\ adds' = adds + 1
    /\ AddBytesFields(bufferSize(w))
    /\ pc' = [pc EXCEPT ![w] = "allow"]
    /\ UNCHANGED <<sourceIndex, attempt, readErr, statusCode, wakeAt, wg, fetches,
                   limiterVars>>
    /\ WorkerFrame

\* Allow: r.mu.Lock()
AllowLock(w) ==
    /\ pc[w] = "allow"
    /\ limiterMu = Free
    /\ limiterMu' = <<"Allow", w>>
    /\ pc' = [pc EXCEPT ![w] = "allowing"]
    /\ UNCHANGED <<now, runVars, heapVars, mu, collectorVars, statsVars, collectorHist, adds,
                   limiterVars, configVars, started, cancelled, wg, stopPc, sourceIndex,
                   attempt, readErr, statusCode, wakeAt, fetches, busyAtCancel>>

\* Allow's body and its deferred r.mu.Unlock(); consumeData then sleeps a positive
\* sleepTime, and returns if the Read had ended with io.EOF or an error
AllowReturn(w) ==
    /\ pc[w] = "allowing"
    /\ limiterMu = <<"Allow", w>>
    /\ limiterMu' = Free
    /\ AllowFields(bufferSize(w))
    /\ IF Allow(bufferSize(w)).wait > 0
       THEN /\ pc' = [pc EXCEPT ![w] = "throttle"]
            /\ wakeAt' = [wakeAt EXCEPT ![w] = now + Allow(bufferSize(w)).wait]
            /\ UNCHANGED <<readErr, sourceIndex, statusCode>>
       ELSE /\ AfterRead(w, readErr[w])
            /\ readErr' = [readErr EXCEPT ![w] = "nil"]
            /\ UNCHANGED wakeAt
    /\ UNCHANGED <<now, runVars, heapVars, mu, collectorVars, statsVars, collectorHist, adds,
                   configVars, started, cancelled, wg, stopPc, attempt, fetches,
                   busyAtCancel>>

\* the calls that are about to take the collector's mutex: the sampler whose ticker
\* has fired, and Start called by the owner of the pool (GetStats and Stop take and
\* release m.mu as Start does)
MuCallers ==
    {<<"sampleMetrics", i>> : i \in {j \in DOMAIN samplers : samplers[j] <= now}}
        \cup {<<"Start", 0>>}

\* m.mu.Lock()
MuLock(holder) ==
    /\ holder \in MuCallers
    /\ mu = Free
    /\ mu' = holder
    /\ UNCHANGED <<now, runVars, heapVars, limiterMu, collectorVars, statsVars, collectorHist, adds,
                   limiterVars, poolVars>>

\* one iteration of sampleMetrics' loop from m.mu.Lock() to m.mu.Unlock()
LockedSample(i) ==
    /\ mu = <<"sampleMetrics", i>>
    /\ mu' = Free
    /\ SampleFields(i)
    /\ UNCHANGED <<now, runVars, limiterMu, bytesTransferred, startTime, noopStart,
                   enableErr, fileClosed, running, logFile, enableLogging, statsVars, addSum, adds,
                   limiterVars, poolVars>>

\* Start's body and its deferred m.mu.Unlock()
LockedStart ==
    /\ mu = <<"Start", 0>>
    /\ mu' = Free
    /\ StartFields
    /\ UNCHANGED <<now, runVars, limiterMu, logFile, enableLogging, statsVars, adds,
                   noopStart, logHist, limiterVars, poolVars>>

ChunkInit ==
    /\ now = 0
    /\ horizon = TickerPeriod
    /\ addLimit = MaxAdds
    /\ fetchLimit = 0
    /\ StartedPool
    /\ targetRate > 0

ChunkNext ==
    \/ \E w \in Workers : ReadSelect(w)
    \/ \E w \in Workers :
          \E n \in {0, bufferSize(w)}, err \in {"nil", "EOF", "error"} :
              (n > 0 \/ err # "nil") /\ ChunkRead(w, n, err)
    \/ \E w \in Workers : ChunkCount(w)
    \/ \E w \in Workers : AllowLock(w)
    \/ \E w \in Workers : AllowReturn(w)
    \/ \E w \in Workers : ThrottleWake(w)
    \/ \E holder \in MuCallers : MuLock(holder)
    \/ \E i \in 1 .. MaxSamplers : LockedSample(i)
    \/ LockedStart
    \/ Advance(TickerPeriod)

ChunkSpec == ChunkInit /\ [][ChunkNext]_vars

(***************************************************************************)
(* SinkSpec: the collector with the metrics log asked for once, every call *)
(* that takes m.mu split into the step that takes it and the step that     *)
(* runs its body and releases it, while the workers count bytes.           *)
(***************************************************************************)
\* the calls that are about to take the collector's mutex: the sampler whose ticker
\* has fired, and the owner's EnableFileLogging, Start and Stop
SinkCallers ==
    {<<"sampleMetrics", i>> : i \in {j \in DOMAIN samplers : samplers[j] <= now}}
        \cup {<<"Stop", 0>>}
        \cup (IF running \/ Len(samplers) < MaxSamplers THEN {<<"Start", 0>>} ELSE {})
        \cup (IF enableErr = "none" THEN {<<"EnableFileLogging", 0>>} ELSE {})

\* m.mu.Lock()
SinkLock(holder) ==
    /\ holder \in SinkCallers
    /\ mu = Free
    /\ mu' = holder
    /\ UNCHANGED <<now, runVars, heapVars, limiterMu, collectorVars, statsVars, collectorHist, adds,
                   limiterVars, poolVars>>

\* EnableFileLogging's body and its deferred m.mu.Unlock()
LockedEnable(createErr, writeErr) ==
    /\ mu = <<"EnableFileLogging", 0>>
    /\ mu' = Free
    /\ EnableFields(createErr, writeErr)
    /\ UNCHANGED <<now, runVars, heapVars, limiterMu, bytesTransferred, startTime, lastSample,
                   lastBytes, running, peakRate, rateHistory, samplers, statsVars,
                   noopStart, allSamples, addSum, logLines, adds, limiterVars, poolVars>>

\* Stop's body and its deferred m.mu.Unlock()
LockedStop ==
    /\ mu = <<"Stop", 0>>
    /\ mu' = Free
    /\ StopFields
    /\ UNCHANGED <<now, runVars, heapVars, limiterMu, bytesTransferred, startTime, lastSample,
                   lastBytes, peakRate, rateHistory, enableLogging, samplers, statsVars,
                   noopStart, allSamples, addSum, enableErr, logLines, adds, limiterVars,
                   poolVars>>

SinkInit ==
    /\ now = 0
    /\ horizon = ShortTicks * TickerPeriod
    /\ addLimit = MaxAdds
    /\ fetchLimit = 0
    /\ NewCollector
    /\ NoConsumer

SinkNext ==
    \/ \E holder \in SinkCallers : SinkLock(holder)
    \/ \E createErr, writeErr \in BOOLEAN : LockedEnable(createErr, writeErr)
    \/ LockedStart
    \/ LockedStop
    \/ \E i \in 1 .. MaxSamplers : LockedSample(i)
    \/ AddBytes(ChunkBytes)
    \/ Advance(TickerPeriod)

SinkSpec == SinkInit /\ [][SinkNext]_vars

(***************************************************************************)
(* SnapshotSpec: a collector that has idled since Start until its history  *)
(* is one entry short of its limit, followed while GetStats is called,     *)
(* bytes are counted and the history fills, evicts and is reset by Start.  *)
(***************************************************************************)
\* the history of a collector that has counted nothing in its first n periods
IdleHistory(n) == [k \in 1 .. n |-> [Timestamp |-> k * TickerPeriod, RateMBPS |-> 0]]

SnapshotInit ==
    /\ now = (historyLimit - 1) * TickerPeriod
    /\ horizon = (historyLimit + ExtraTicks + 1) * TickerPeriod
    /\ addLimit = HistoryAdds
    /\ fetchLimit = 0
    /\ bytesTransferred = 0
    /\ startTime = 0
    /\ lastSample = now
    /\ lastBytes = 0
    /\ running = TRUE
    /\ peakRate = 0
    /\ rateHistory = IdleHistory(historyLimit - 1)
    /\ logFile = "nil"
    /\ enableLogging = FALSE
    /\ mu = Free
    /\ samplers = <<now + TickerPeriod>>
    /\ stats = NoStats
    /\ evicted = <<>>
    /\ spare = 1
    /\ snapshotSlice = OwnSlice(<<>>)
    /\ statsSum = 0
    /\ statsState = "none"
    /\ noopStart = FALSE
    /\ allSamples = IdleHistory(historyLimit - 1)
    /\ enableErr = "none"
    /\ logLines = 0
    /\ fileClosed = FALSE
    /\ addSum = 0
    /\ adds = 0
    /\ NoConsumer

SnapshotNext ==
    \/ CollectorStart
    \/ CollectorStop
    \/ AddBytes(ChunkBytes)
    \/ \E i \in 1 .. MaxSamplers : sampleMetrics(i)
    \/ GetStats
    \/ Advance(TickerPeriod)

SnapshotSpec == SnapshotInit /\ [][SnapshotNext]_vars

(***************************************************************************)
(* Properties of the collector                                             *)
(***************************************************************************)
\* C1: the byte counter, and the total of every snapshot GetStats returned, is the
\* exact sum of the increments of the AddBytes calls completed since Start, whatever
\* the order in which the callers' calls took effect
NoLostUpdates ==
    /\ bytesTransferred = addSum
    /\ stats # NoStats => stats.BytesTransferred = statsSum

\* a snapshot of a running collector that totals two or more AddBytes calls
NoLostUpdatesWitness ==
    /\ running
    /\ stats # NoStats
    /\ stats.StartTime = startTime
    /\ stats.BytesTransferred >= 2 * ChunkBytes

\* C7: after k recorded samples rateHistory is the last min(k, historyLimit) of them,
\* oldest first, so it never holds more than historyLimit entries and a sample that
\* arrives at full capacity evicts the oldest
HistoryWindow ==
    LET k == Len(allSamples)
        n == Min(k, historyLimit)
    IN  /\ Len(rateHistory) = n
        /\ rateHistory = SubSeq(allSamples, k - n + 1, k)
        /\ \A i \in 1 .. n - 1 : rateHistory[i].Timestamp < rateHistory[i + 1].Timestamp

\* more samples than the capacity were recorded and the first was evicted
HistoryWindowWitness ==
    /\ Len(allSamples) > historyLimit
    /\ Len(rateHistory) = historyLimit
    /\ rateHistory[1] = allSamples[Len(allSamples) - historyLimit + 1]

\* C8: peakRate is at least the rate of every sample in rateHistory and of every
\* sample recorded since the collector was last reset by Start
PeakBound ==
    /\ \A i \in DOMAIN rateHistory : peakRate >= rateHistory[i].RateMBPS
    /\ \A i \in DOMAIN allSamples : peakRate >= allSamples[i].RateMBPS

\* a sample with a positive rate was recorded and set the peak
PeakBoundWitness ==
    \E i \in DOMAIN rateHistory : rateHistory[i].RateMBPS > 0 /\ rateHistory[i].RateMBPS = peakRate

\* C9: no sampling tick, AddBytes, GetStats or Stop call leaves peakRate lower than
\* it was before the call
PeakMonotone ==
    [][((\E i \in 1 .. MaxSamplers : sampleMetrics(i)) \/ AddBytes(ChunkBytes) \/ GetStats
            \/ CollectorStop)
        => peakRate' >= peakRate]_vars

\* a sample below the peak was recorded, and the collector stopped, with the peak kept
PeakMonotoneWitness ==
    /\ ~running
    /\ Len(allSamples) >= 2
    /\ allSamples[Len(allSamples)].RateMBPS < peakRate

\* C10: the CurrentRate of a snapshot is the rate of the last history entry, and with
\* an empty history it is the total bytes over the time elapsed since startTime (0 when
\* no time has elapsed)
SnapshotRate ==
    stats # NoStats =>
        stats.CurrentRate =
            IF stats.RateHistory = <<>>
            THEN IF stats.ElapsedTime > 0
                 THEN RateMBPerMin(stats.BytesTransferred, stats.ElapsedTime)
                 ELSE 0
            ELSE stats.RateHistory[Len(stats.RateHistory)].RateMBPS

\* a snapshot taken before the first sample whose rate comes from the byte total
SnapshotRateWitness ==
    /\ stats # NoStats
    /\ stats.RateHistory = <<>>
    /\ stats.BytesTransferred > 0
    /\ stats.CurrentRate > 0

\* C11: a Start call that finds the collector running changes none of
\* bytesTransferred, startTime, lastSample, lastBytes, peakRate and rateHistory, leaves
\* it running and launches no sampler goroutine
StartWhileRunning ==
    [][(running /\ StartCall) =>
          UNCHANGED <<bytesTransferred, startTime, lastSample, lastBytes, peakRate,
                      rateHistory, running, samplers>>]_vars

\* Start was called on a running collector that had counted bytes and recorded a sample
StartWhileRunningWitness ==
    /\ noopStart
    /\ running
    /\ bytesTransferred > 0
    /\ rateHistory # <<>>

\* C12: a Start call that finds the collector not running leaves it running with
\* bytesTransferred = 0, lastBytes = 0, peakRate = 0, an empty rateHistory and
\* startTime = lastSample = now, whatever the fields held before
StartResets ==
    [][(~running /\ StartCall) =>
          /\ running'
          /\ bytesTransferred' = 0
          /\ lastBytes' = 0
          /\ peakRate' = 0
          /\ rateHistory' = <<>>
          /\ startTime' = now
          /\ lastSample' = now]_vars

\* a collector that had counted bytes and recorded a peak was stopped and started
\* again, and no call has touched it since
StartResetsWitness ==
    /\ running
    /\ ~noopStart
    /\ adds > 0
    /\ startTime > 0
    /\ startTime = now
    /\ bytesTransferred = 0
    /\ peakRate = 0

\* C13: a GetStats call, whether the collector is fresh, running or stopped, changes
\* none of bytesTransferred, startTime, lastSample, lastBytes, peakRate, rateHistory,
\* running and logFile, and the snapshot it returns holds the byte total, the peak and
\* the history of that moment
GetStatsReadOnly ==
    [][(statsVars' # statsVars) =>
          /\ UNCHANGED <<bytesTransferred, startTime, lastSample, lastBytes, peakRate,
                         rateHistory, running, logFile, enableLogging>>
          /\ stats'.BytesTransferred = bytesTransferred
          /\ stats'.PeakRate = peakRate
          /\ stats'.RateHistory = rateHistory]_vars

\* a snapshot taken after Stop that still shows the bytes, the peak and the history
GetStatsReadOnlyWitness ==
    /\ statsState = "stopped"
    /\ ~running
    /\ stats.BytesTransferred > 0
    /\ stats.PeakRate > 0
    /\ stats.RateHistory # <<>>

\* C14: every snapshot GetStats returned is consistent in itself: its PeakRate is at
\* least every rate of its RateHistory, its CurrentRate is the rate of the last entry
\* of a non-empty RateHistory, and its TotalMegabytes is its BytesTransferred in MB
SnapshotConsistent ==
    stats # NoStats =>
        /\ \A i \in DOMAIN stats.RateHistory : stats.PeakRate >= stats.RateHistory[i].RateMBPS
        /\ stats.RateHistory # <<>> =>
               stats.CurrentRate = stats.RateHistory[Len(stats.RateHistory)].RateMBPS
        /\ stats.TotalMegabytes = stats.BytesTransferred

\* a snapshot of a running collector, taken between AddBytes calls and ticks, whose
\* peak is above its current rate
SnapshotConsistentWitness ==
    /\ statsState = "running"
    /\ Len(stats.RateHistory) >= 2
    /\ stats.PeakRate > stats.CurrentRate
    /\ stats.BytesTransferred > 0

\* C20: when EnableFileLogging has returned an error, the collector collects without
\* logging: no sampling tick hands a record to the log file
FailedSinkSilent == enableErr = "error" => logLines = 0

\* Stop has been called since sampler goroutine i was launched: Start launches a
\* sampler only when the collector is not running, so every sampler but the last was
\* launched before a Stop, and the last one too when the collector is not running
Orphaned(i) == ~running \/ i < Len(samplers)

\* C23: a sampler goroutine whose Start has been followed by Stop exits at its next
\* wake at the latest: no tick of such a sampler leaves it alive
NoSamplerLeak ==
    [][\A i \in DOMAIN samplers :
          Orphaned(i) =>
              ~(Len(samplers') = Len(samplers) /\ samplers'[i] # samplers[i])]_vars

\* C30: whatever the sequence of Start and Stop calls, at most one sampler goroutine
\* is live and appending samples to rateHistory
OneSampler == running => Len(samplers) <= 1

(***************************************************************************)
(* Properties of the pool                                                  *)
(***************************************************************************)
\* C2: Consumer.Stop signals cancellation before anything else, and the collector of
\* a started pool is stopped only after c.wg.Wait() returned, when every worker
\* goroutine has exited
StopOrder ==
    /\ stopPc # "idle" => cancelled
    /\ (started /\ ~running) => (stopPc = "returned" /\ \A w \in Workers : pc[w] = "done")

\* Stop has returned and stopped the collector of a pool whose workers had counted bytes
StopOrderWitness == started /\ ~running /\ stopPc = "returned" /\ adds > 0

\* C3: under fair scheduling every Stop that was called returns, which it does only
\* after every worker has exited, whatever the workers were blocked in
StopReturns == (stopPc = "wait") ~> (stopPc = "returned" /\ \A w \in Workers : pc[w] = "done")

\* Stop has returned although a worker was blocked in a call or a sleep when it was called
StopReturnsWitness == stopPc = "returned" /\ busyAtCancel

\* C4: once c.ctx is done no worker begins a fetch attempt: no worker moves into
\* client.Do from anywhere else
NoAttemptAfterCancel ==
    [][\A w \in Workers : (cancelled /\ pc'[w] = "connect") => pc[w] = "connect"]_vars
\* C15: a pool built with an empty source list is never started, and no worker
\* goroutine of it ever runs
EmptySourcesRefused == numSources = 0 => (~started /\ \A w \in Workers : pc[w] = "new")

\* C21: Start spawns as many workers as the configuration asks for, and at least one:
\* until Stop is called, the number of worker goroutines the pool waits for is
\* config.ConcurrencyFactor
WorkersAsConfigured ==
    (started /\ ~cancelled) => (wg = concurrencyFactor /\ wg >= 1)

\* C16: a response whose status is outside 2xx is a failed attempt: the worker that
\* holds it never moves on to the next source as after a successful fetch, without
\* the pause that follows a failure
ErrorStatusFails ==
    [][\A w \in Workers :
          (statusCode[w] = StatusUnavailable /\ ~cancelled) => pc'[w] # "loop"]_vars

\* worker w is issuing a fetch attempt, or is at the top of its loop with the
\* explored run's consumeData calls used up
IssuesAttempt(w) == pc[w] = "connect" \/ (pc[w] = "loop" /\ fetches = fetchLimit)

CancelledFetchClean ==
    [][\A w \in Workers :
          (cancelled /\ pc[w] = "connect") => pc'[w] # "backoff"]_vars

\* C19: a worker of the retrying pool makes at most MaxAttempts attempts at a source
\* in a round, and it moves to the next source, (sourceIndex + 1) % len(sources), in
\* exactly two steps: the one in which consumeData returns true, and the one that
\* ends the pause after the failure of attempt number MaxAttempts; in every other
\* step of a started worker its source stays and no new round begins
RoundRobin ==
    /\ [](\A w \in Workers : attempt[w] \in 0 .. MaxAttempts - 1)
    /\ [][\A w \in Workers :
            (variant = "retry" /\ pc[w] # "new") =>
                LET succeeded == pc[w] = "copy" /\ pc'[w] \notin {"copy", "backoff"}
                    lastFailed == /\ pc[w] = "backoff"
                                  /\ attempt[w] = MaxAttempts - 1
                                  /\ pc'[w] # "backoff"
                IN  IF succeeded \/ lastFailed
                    THEN /\ sourceIndex'[w] = (sourceIndex[w] + 1) % numSources
                         /\ pc'[w] = "loop"
                    ELSE /\ sourceIndex'[w] = sourceIndex[w]
                         /\ pc'[w] = "loop" => pc[w] = "loop"]_vars

\* a retrying worker that has moved on from its first source is pausing after the
\* failure of its last attempt at the next one
RoundRobinWitness ==
    /\ variant = "retry"
    /\ numSources > 1
    /\ \E w \in Workers :
          /\ pc[w] = "backoff"
          /\ attempt[w] = MaxAttempts - 1
          /\ sourceIndex[w] # w % numSources

\* C22: no goroutine holds the limiter's mutex and the collector's mutex at the same
\* time, and a worker that is about to count a chunk can always do so at once,
\* whoever holds the collector's mutex
LocksApart ==
    /\ (mu # Free /\ limiterMu # Free) => Task(mu) # Task(limiterMu)
    /\ \A w \in Workers : pc[w] = "count" => ENABLED ChunkCount(w)

\* a worker is about to count a chunk while a sampling tick holds the collector's
\* mutex and another worker is inside Allow
LocksApartWitness ==
    /\ mu # Free
    /\ mu[1] = "sampleMetrics"
    /\ limiterMu # Free
    /\ \E w \in Workers : pc[w] = "count"

\* the bytes one Read of worker w's response body hands to AddBytes
ChunkOf(w) == IF variant = "retry" THEN ChunkBytes ELSE bufferSize(w)

\* C24: bytes are counted only for data read from a response body: the total is the
\* sum of the chunks read, it grows only in a step in which a worker that holds a
\* response of an answering source reads a chunk of its body, by that chunk's size,
\* and no step of a worker whose current source is the failing one changes it
CountsOnlyReads ==
    /\ [](bytesTransferred = addSum)
    /\ [][bytesTransferred' # bytesTransferred =>
            \E w \in Workers :
                /\ pc[w] \in {"copy", "read"}
                /\ statusCode[w] # 0
                /\ sourceIndex[w] # BadSource
                /\ bytesTransferred' = bytesTransferred + ChunkOf(w)]_vars
    /\ [][\A w \in Workers :
            (sourceIndex[w] = BadSource /\ pc'[w] # pc[w] /\ pc[w] # "new") =>
                bytesTransferred' = bytesTransferred]_vars

\* bytes of an answering source have been counted and a worker is pausing after a
\* failed attempt at the failing source
CountsOnlyReadsWitness ==
    /\ bytesTransferred > 0
    /\ \E w \in Workers : pc[w] = "backoff" /\ sourceIndex[w] = BadSource

(***************************************************************************)
(* Properties of the limiter                                               *)
(***************************************************************************)
\* C5: a limiter built with a target of 0 or less never returns a positive wait
NoWaitWithoutTarget == targetRate <= 0 => lastWait <= 0

\* the bytes of one buffer of every worker in S
RECURSIVE BufferBytes(_)
BufferBytes(S) ==
    IF S = {} THEN 0
    ELSE LET w == CHOOSE x \in S : TRUE IN bufferSize(w) + BufferBytes(S \ {w})

\* C6: with a target of R > 0 bytes per second, workers that read a fast source and
\* sleep every wait Allow returns are admitted no more than R bytes per second of
\* the run, give or take two one-second windows at R and one buffer per worker
RateBounded ==
    targetBytesPerSecond > 0 =>
        admitted <= MulDiv(targetBytesPerSecond, Since(startTime) + Second + Second, Second)
                        + BufferBytes(Workers)

\* C25: in the rate-limited read loop every chunk of n > 0 bytes is passed to
\* AddBytes once and then to Allow once: the bytes counted and not yet passed to
\* Allow are those of the workers between the two calls; the worker sleeps after
\* Allow exactly when the Duration returned is positive, for that Duration; and it
\* reads on when the Read returned no error and leaves the response when it returned
\* io.EOF or an error
ChunkOrder ==
    /\ [](addSum - admitted = BufferBytes(Unadmitted))
    /\ [][\A w \in Workers :
            (pc[w] = "allowing" /\ pc'[w] # "allowing") =>
                /\ (pc'[w] = "throttle") = (lastWait' > 0)
                /\ pc'[w] = "throttle" => wakeAt'[w] = now + lastWait']_vars
    /\ [][\A w \in Workers :
            (pc[w] \in {"allowing", "throttle"} /\ pc'[w] \notin {pc[w], "throttle"}) =>
                pc'[w] = (IF readErr[w] = "nil" THEN "readsel" ELSE "loop")]_vars
    /\ [][\A w \in Workers :
            (pc[w] = "read" /\ pc'[w] # "read") =>
                \/ pc'[w] = "count" /\ bytesTransferred' = bytesTransferred
                \/ pc'[w] = "loop" /\ readErr'[w] = "nil"]_vars

\* every chunk counted has been passed to Allow, and a worker is asleep for the wait
\* of its last chunk, whose Read also returned the end of the body
ChunkOrderWitness ==
    /\ addSum > 0
    /\ admitted = addSum
    /\ \E w \in Workers : pc[w] = "throttle" /\ readErr[w] = "EOF"

\* C26: an Allow(bytes) call made more than one second after lastCheck sets lastCheck
\* to now and bytesThisPeriod to 0 and returns 0, whatever bytes is; a call made
\* within one second leaves lastCheck alone and adds exactly bytes to bytesThisPeriod
WindowReset ==
    [][admitted' # admitted =>
          LET bytes == admitted' - admitted
          IN  IF now - lastCheck > Second
              THEN lastCheck' = now /\ bytesThisPeriod' = 0 /\ lastWait' = 0
              ELSE lastCheck' = lastCheck /\ bytesThisPeriod' = bytesThisPeriod + bytes]_vars

\* the window has been reset by a call, and a later call within the new window has
\* been charged to it
WindowResetWitness ==
    /\ resets > 0
    /\ lastCheck > 0
    /\ bytesThisPeriod > 0
    /\ now - lastCheck <= Second

\* C27: with a positive target, an Allow(bytes) call made within one second of
\* lastCheck returns 0 when bytesThisPeriod, bytes included, is at most
\* targetBytesPerSecond * elapsed, and otherwise the smaller of MaxSleep and
\* excess / targetBytesPerSecond, to the clock's resolution; every wait it returns
\* is between 0 and MaxSleep
WaitFormula ==
    /\ [](targetRate > 0 => (lastWait >= 0 /\ lastWait <= MaxSleep))
    /\ [][(admitted' # admitted /\ targetRate > 0 /\ now - lastCheck <= Second) =>
            LET elapsed == now - lastCheck
                total == bytesThisPeriod + (admitted' - admitted)
                excess == total * Second - targetBytesPerSecond * elapsed
            IN  IF excess <= 0
                THEN lastWait' = 0
                ELSE \/ /\ lastWait' < MaxSleep
                        /\ lastWait' * targetBytesPerSecond <= excess + Second
                        /\ lastWait' * targetBytesPerSecond > excess - targetBytesPerSecond
                     \/ /\ lastWait' = MaxSleep
                        /\ MaxSleep * targetBytesPerSecond <= excess + Second]_vars

\* with a positive target Allow has returned a wait that is positive and below the
\* cap, after an earlier window was reset
WaitFormulaWitness ==
    /\ targetRate > 0
    /\ resets > 0
    /\ lastWait > 0
    /\ lastWait < MaxSleep
\* C28: a record reaches the log file only in a step of the sampler's tick, taken
\* while that sampler holds m.mu and the collector runs, never in a worker's or the
\* owner's step; m.logFile never refers to a file that Stop has closed, and no
\* record is handed to a closed file, however the ticks and Stop are interleaved
SinkWrites ==
    /\ [](logFile # "nil" => ~fileClosed)
    /\ [][logLines' # logLines =>
            /\ \E i \in DOMAIN samplers : mu = <<"sampleMetrics", i>>
            /\ running
            /\ enableLogging
            /\ ~fileClosed]_vars

\* a record was written, Stop closed the file, and a tick of the restarted collector
\* has sampled since
SinkWritesWitness ==
    /\ logLines > 0
    /\ fileClosed
    /\ running
    /\ allSamples # <<>>

\* the workers that have computed their first sourceIndex
Rotating == {w \in Workers : pc[w] \notin {"new", "panic"}}

\* C29: with a source list that is not empty, worker w begins at sourceIndex
\* w % len(sources); the sourceIndex of every worker that has one is always in
\* 0 .. len(sources) - 1; it changes in no step but the one that ends a fetch round
\* and returns the worker to the top of its loop, and there it becomes
\* (sourceIndex + 1) % len(sources)
SourceCycle ==
    /\ [](\A w \in Rotating : sourceIndex[w] \in 0 .. numSources - 1)
    /\ [][\A w \in Workers :
            /\ (pc[w] = "new" /\ pc'[w] \notin {"new", "panic"}) =>
                   sourceIndex'[w] = w % numSources
            /\ w \in Rotating =>
                   IF pc[w] # "loop" /\ pc'[w] = "loop"
                   THEN sourceIndex'[w] = (sourceIndex[w] + 1) % numSources
                   ELSE sourceIndex'[w] = sourceIndex[w]]_vars

\* a worker that began at the last source has finished a round and is back at the
\* first
SourceCycleWitness ==
    \E w \in Workers :
        /\ numSources > 1
        /\ w % numSources = numSources - 1
        /\ pc[w] = "loop"
        /\ sourceIndex[w] = 0

\* C31: the RateHistory of the Stats value GetStats returned reads, in every later
\* state, the entries it read when it was returned, in the same number: no tick that
\* appends, no tick that evicts the oldest entry of a full history and appends, and
\* no Start changes a cell that slice covers
SnapshotFrozen == stats # NoStats => SnapshotCells = stats.RateHistory

\* a snapshot of a full history still shares the array of m.rateHistory, and a tick
\* has evicted and appended in that array since
SnapshotFrozenWitness ==
    /\ stats # NoStats
    /\ snapshotSlice.shared
    /\ snapshotSlice.len = historyLimit
    /\ Len(evicted) > snapshotSlice.off

\* C32: a worker's AddBytes takes effect only while the collector that Consumer.Start
\* started is running and Consumer.Stop has not returned; once Stop has returned the
\* byte counter never changes, and every snapshot GetStats returns from then on
\* reports the sum of all the bytes the workers counted
SummaryComplete ==
    /\ []((stopPc = "returned" /\ stats # NoStats) =>
              (stats.BytesTransferred = addSum /\ bytesTransferred = addSum))
    /\ [][bytesTransferred' > bytesTransferred =>
              (started /\ running /\ running' /\ stopPc # "returned")]_vars
    /\ [][stopPc = "returned" =>
              (bytesTransferred' = bytesTransferred /\ addSum' = addSum)]_vars

\* the summary taken after Stop returned reports bytes the workers counted
SummaryCompleteWitness ==
    /\ stopPc = "returned"
    /\ stats # NoStats
    /\ stats.BytesTransferred > 0

\* the steps of a Consumer.Stop called after Consumer.Stop has returned
SecondStopStep == stopPc \in {"returned", "waitAgain"} /\ stopPc' # stopPc

\* C33: a Consumer.Stop called after Consumer.Stop has returned never waits (its
\* c.wg.Wait() finds the counter at 0), and its steps change no field of the
\* collector, whose running stays false and whose log file stays released, and
\* nothing of the pool: not the cancelled context, the WaitGroup or any worker
SecondStopNoop ==
    /\ [](stopPc = "waitAgain" => ENABLED StopAgainWait)
    /\ [](stopPc \in {"returned", "waitAgain", "returnedAgain"} =>
              (~running /\ logFile = "nil" /\ cancelled /\ wg = 0))
    /\ [][SecondStopStep =>
              UNCHANGED <<collectorVars, heapVars, fileClosed, cancelled, wg, started,
                          workerVars, limiterVars>>]_vars

\* the second Stop has returned, on a collector that had counted bytes, taken a
\* sample and written its log, closed by the first Stop
SecondStopNoopWitness ==
    /\ stopPc = "returnedAgain"
    /\ fileClosed
    /\ bytesTransferred > 0
    /\ rateHistory # <<>>

====
